---- MODULE Spec2Model ----
(***************************************************************************)
(* A model of clap-cc's argument registry (App::arg, App::subcommand) and  *)
(* of its token-matching state machine (App::get_matches_from and the      *)
(* parse_* helpers), src/src/app.rs.                                       *)
(*                                                                         *)
(* Text is a tuple of one-character strings, so that prefix tests,         *)
(* trimming and splitting are computed as the code computes them.          *)
(* Option<T> is a tuple of length 0 (None) or 1 (Some(x)).                 *)
(* A HashMap / BTreeMap is a function whose DOMAIN is the key set.         *)
(***************************************************************************)
EXTENDS Integers, Sequences, FiniteSets, TLC

VARIABLES
    phase,      \* "build" | "parse" | "done" | "exited" | "panicked"
    stack,      \* the App values under construction, innermost last
    logs,       \* history: per App under construction, the Args passed to arg()
    panic,      \* None, or Some(the panic of a failed arg() call)
    frames,     \* the active get_matches_from calls, innermost last
    proc,       \* the process: what was printed, the runtime's exit status, the exit code
    consumed,   \* history: the tokens taken from the iterator, each with the level that
                \* took it and the branch of the loop body that handled it
    exhausted,  \* history: the iterator has returned None
    result,     \* None, or Some(the ArgMatches get_matches returned)
    used,       \* history: how many arg() and SubCommand::new calls the program has made
    pool        \* the name of the set of declarations and tokens the embedding program
                \* and its user draw from

vars == <<phase, stack, logs, panic, frames, proc, consumed, exhausted, result, used, pool>>

----------------------------------------------------------------------------
(* Bounds of the model *)

\* arg() calls made while building one registry tree
MaxArgs == 3
\* App::new calls for subcommands while building one registry tree
MaxSubs == 1
\* tokens the user supplies
MaxTokens == 3

----------------------------------------------------------------------------
(* Option and map helpers *)

None == <<>>
Some(x) == <<x>>
is_some(o) == o # <<>>
is_none(o) == o = <<>>
unwrap(o) == o[1]

EmptyMap == <<>>
contains_key(m, k) == k \in DOMAIN m
insert(m, k, v) == [x \in (DOMAIN m) \cup {k} |-> IF x = k THEN v ELSE m[x]]
is_empty(m) == DOMAIN m = {}
values(m) == {m[k] : k \in DOMAIN m}

Min2(a, b) == IF a < b THEN a ELSE b

----------------------------------------------------------------------------
(* Text *)

Dash == "-"
Eq == "="

starts_with(s, p) == Len(s) >= Len(p) /\ SubSeq(s, 1, Len(p)) = p

RECURSIVE trim_left_matches(_, _)
trim_left_matches(s, c) ==
    IF s # <<>> /\ Head(s) = c THEN trim_left_matches(Tail(s), c) ELSE s

contains(s, c) == \E i \in 1..Len(s) : s[i] = c

\* position of the first c in s, or Len(s)+1
RECURSIVE find(_, _, _)
find(s, c, i) == IF i > Len(s) THEN i ELSE IF s[i] = c THEN i ELSE find(s, c, i + 1)

\* str::split(c): every piece between separators, empty pieces included
RECURSIVE split(_, _)
split(s, c) ==
    LET i == find(s, c, 1) IN
    IF i > Len(s) THEN <<s>>
    ELSE <<SubSeq(s, 1, i - 1)>> \o split(SubSeq(s, i + 1, Len(s)), c)

help_str == <<"h", "e", "l", "p">>
version_str == <<"v", "e", "r", "s", "i", "o", "n">>

----------------------------------------------------------------------------
(* The process: stdout, the runtime's exit status, the exit code *)

NewProc == [stdout |-> <<>>, exit_status |-> 0, exit_code |-> None]

terminated(p) == is_some(p.exit_code)

println(p, what) == [p EXCEPT !.stdout = Append(@, what)]

exit(p) == [p EXCEPT !.exit_code = Some(0)]

print_usage(p, more_info) == println(p, "usage")

print_version(p, quit) ==
    LET p1 == println(p, "version") IN IF quit THEN exit(p1) ELSE p1

\* print_help without the exit at its end
print_help_returning(p) == println(print_version(p, FALSE), "help")

print_help(p) == exit(println(print_version(p, FALSE), "help"))

report_error(p, msg, help, quit) ==
    LET p1 == println(p, msg)
        p2 == IF help THEN print_usage(p1, TRUE) ELSE p1
    IN  IF quit THEN exit([p2 EXCEPT !.exit_status = 1]) ELSE p2

----------------------------------------------------------------------------
(* App::new and App::arg *)

NewApp(n) ==
    [name |-> n,
     flags |-> EmptyMap, opts |-> EmptyMap, positionals_idx |-> EmptyMap,
     subcommands |-> EmptyMap,
     needs_long_help |-> TRUE, needs_long_version |-> TRUE,
     needs_short_help |-> TRUE, needs_short_version |-> TRUE,
     needs_subcmd_help |-> TRUE,
     required |-> {}, arg_list |-> {}, short_list |-> {}, long_list |-> {},
     blacklist |-> {}]

PosBuilder(a) ==
    [name |-> a.name, index |-> unwrap(a.index), required |-> a.required,
     blacklist |-> a.blacklist, requires |-> a.requires]

OptBuilder(a) ==
    [name |-> a.name, short |-> a.short, long |-> a.long, multiple |-> a.multiple,
     blacklist |-> a.blacklist, requires |-> a.requires, required |-> a.required]

FlagBuilder(a) ==
    [name |-> a.name, short |-> a.short, long |-> a.long,
     blacklist |-> a.blacklist, multiple |-> a.multiple, requires |-> a.requires]

\* arg_unique without its check of the short character
arg_unique_short_unchecked(app, a) ==
    IF a.name \in app.arg_list THEN Some("DupName")
    ELSE IF is_some(a.long) /\ unwrap(a.long) \in app.long_list THEN Some("DupLong")
    ELSE None

\* the uniqueness checks of arg(): None, or Some(the panic)
arg_unique(app, a) ==
    IF a.name \in app.arg_list THEN Some("DupName")
    ELSE IF is_some(a.short) /\ unwrap(a.short) \in app.short_list THEN Some("DupShort")
    ELSE IF is_some(a.long) /\ unwrap(a.long) \in app.long_list THEN Some("DupLong")
    ELSE None

\* arg_shape without its check that a flag is not required
arg_shape_flag_required_unchecked(a) ==
    IF is_some(a.index) THEN
        IF is_some(a.short) \/ is_some(a.long) THEN Some("PosWithShortOrLong")
        ELSE IF a.multiple THEN Some("PosMultiple")
        ELSE IF a.takes_value THEN Some("PosTakesValue")
        ELSE None
    ELSE IF a.takes_value THEN
        IF is_none(a.short) /\ is_none(a.long) THEN Some("OptNoShortOrLong") ELSE None
    ELSE
        IF is_none(a.short) /\ is_none(a.long) THEN Some("FlagNoShortOrLong")
        ELSE None

\* the shape checks of arg(): None, or Some(the panic)
arg_shape(a) ==
    IF is_some(a.index) THEN
        IF is_some(a.short) \/ is_some(a.long) THEN Some("PosWithShortOrLong")
        ELSE IF a.multiple THEN Some("PosMultiple")
        ELSE IF a.takes_value THEN Some("PosTakesValue")
        ELSE None
    ELSE IF a.takes_value THEN
        IF is_none(a.short) /\ is_none(a.long) THEN Some("OptNoShortOrLong") ELSE None
    ELSE
        IF is_none(a.short) /\ is_none(a.long) THEN Some("FlagNoShortOrLong")
        ELSE IF a.required THEN Some("FlagRequired")
        ELSE None

\* the registry after a successful arg(a)
arg_insert(app, a) ==
    LET a1 == [app EXCEPT
                 !.arg_list = @ \cup {a.name},
                 !.short_list = IF is_some(a.short) THEN @ \cup {unwrap(a.short)} ELSE @,
                 !.long_list = IF is_some(a.long) THEN @ \cup {unwrap(a.long)} ELSE @,
                 !.required = IF a.required THEN @ \cup {a.name} ELSE @]
    IN  IF is_some(a.index) THEN
            [a1 EXCEPT !.positionals_idx = insert(@, unwrap(a.index), PosBuilder(a))]
        ELSE IF a.takes_value THEN
            [a1 EXCEPT !.opts = insert(@, a.name, OptBuilder(a))]
        ELSE
            [a1 EXCEPT
               !.needs_long_help = IF a.long = Some(help_str) THEN FALSE ELSE @,
               !.needs_long_version = IF a.long = Some(version_str) THEN FALSE ELSE @,
               !.needs_short_help = IF a.short = Some("h") THEN FALSE ELSE @,
               !.needs_short_version = IF a.short = Some("v") THEN FALSE ELSE @,
               !.flags = insert(@, a.name, FlagBuilder(a))]

\* None, or Some(the panic) of arg(a) on app
arg_panic(app, a) ==
    IF is_some(arg_unique(app, a)) THEN arg_unique(app, a) ELSE arg_shape(a)

----------------------------------------------------------------------------
(* ArgMatches and the per-level bookkeeping *)

NewMatches == [flags |-> EmptyMap, opts |-> EmptyMap, positionals |-> EmptyMap,
               subcommand |-> None]

matched(matches, n) ==
    \/ contains_key(matches.opts, n)
    \/ contains_key(matches.flags, n)
    \/ contains_key(matches.positionals, n)

\* after_match without the dependencies of v
after_match_requires_unadded(app, matches, v) ==
    [app EXCEPT !.blacklist = @ \cup v.blacklist, !.required = @ \ {v.name}]

\* after spec v was matched: merge its blacklist into the registry's, drop it from
\* required, and add those of its requires that are not matched yet
after_match(app, matches, v) ==
    [app EXCEPT
       !.blacklist = @ \cup v.blacklist,
       !.required = (@ \ {v.name}) \cup {n \in v.requires : ~matched(matches, n)}]

BuiltinNames == {"clap_help", "clap_version"}

\* the first of the specs S in the iteration order of the level's flags map: the
\* order of a HashMap is not specified, and only matters between a built-in flag
\* and a declared one
first_of(S, builtin_first) ==
    LET b == {v \in S : v.name \in BuiltinNames}
        u == S \ b
    IN  IF b = {} THEN CHOOSE v \in u : TRUE
        ELSE IF u = {} THEN CHOOSE v \in b : TRUE
        ELSE IF builtin_first THEN CHOOSE v \in b : TRUE
        ELSE CHOOSE v \in u : TRUE

create_help_and_version(app) ==
    LET f1 == IF app.needs_long_help
              THEN insert(app.flags, "clap_help",
                     [name |-> "clap_help",
                      short |-> IF app.needs_short_help THEN Some("h") ELSE None,
                      long |-> Some(help_str), blacklist |-> {}, multiple |-> FALSE,
                      requires |-> {}])
              ELSE app.flags
        f2 == IF app.needs_long_version
              THEN insert(f1, "clap_version",
                     [name |-> "clap_version",
                      short |-> IF app.needs_short_help THEN Some("v") ELSE None,
                      long |-> Some(version_str), blacklist |-> {}, multiple |-> FALSE,
                      requires |-> {}])
              ELSE f1
        sc == IF app.needs_subcmd_help /\ ~is_empty(app.subcommands)
              THEN insert(app.subcommands, help_str, NewApp(help_str))
              ELSE app.subcommands
    IN  [app EXCEPT !.flags = f2, !.subcommands = sc]

check_for_help_and_version(app, p, arg) ==
    IF arg = "h" /\ app.needs_short_help THEN print_help(p)
    ELSE IF arg = "v" /\ app.needs_short_version THEN print_version(p, TRUE)
    ELSE p

\* a flag spec v matched: the ArgMatches entry and the bookkeeping (the same code
\* in parse_long_arg and parse_single_short_flag)
flag_matched(c, v, ret) ==
    IF v.name \in c.app.blacklist THEN
        [c EXCEPT !.proc = report_error(@, "MutuallyExclusive", TRUE, TRUE)]
    ELSE IF contains_key(c.matches.flags, v.name) /\ ~v.multiple THEN
        [c EXCEPT !.proc = report_error(@, "DuplicateNotAllowed", TRUE, TRUE)]
    ELSE
        LET occ == IF contains_key(c.matches.flags, v.name)
                   THEN (IF v.multiple
                         THEN c.matches.flags[v.name].occurrences + 1 ELSE 1)
                   ELSE 1
            m == [c.matches EXCEPT
                    !.flags = insert(@, v.name, [name |-> v.name, occurrences |-> occ])]
        IN  [c EXCEPT !.matches = m, !.app = after_match(c.app, m, v), !.ret = ret]

\* c.ret is the bool the function returns
parse_single_short_flag(c, builtin_first, arg) ==
    LET cands == {v \in values(c.app.flags) : is_some(v.short) /\ unwrap(v.short) = arg}
    IN  IF cands = {} THEN [c EXCEPT !.ret = FALSE]
        ELSE flag_matched(c, first_of(cands, builtin_first), TRUE)

\* opt_matched without its check of a repeated option that does not repeat
opt_matched_duplicates_unchecked(c, v, arg_val) ==
    IF v.name \in c.app.blacklist THEN
        [c EXCEPT !.proc = report_error(@, "MutuallyExclusive", TRUE, TRUE)]
    ELSE
        LET m == IF contains_key(c.matches.opts, v.name) THEN
                     IF is_some(arg_val) THEN
                         [c.matches EXCEPT
                            !.opts[v.name].occurrences = @ + 1,
                            !.opts[v.name].values = Append(@, unwrap(arg_val))]
                     ELSE c.matches
                 ELSE
                     [c.matches EXCEPT
                        !.opts = insert(@, v.name,
                                   [name |-> v.name, occurrences |-> 1,
                                    values |-> IF is_some(arg_val)
                                               THEN <<unwrap(arg_val)>> ELSE <<>>])]
        IN  [c EXCEPT !.matches = m, !.app = after_match(c.app, m, v),
                      !.ret = IF is_none(arg_val) THEN Some(v.name) ELSE None]

\* an option spec v matched by its long or short form, arg_val the inline value
opt_matched(c, v, arg_val) ==
    IF v.name \in c.app.blacklist THEN
        [c EXCEPT !.proc = report_error(@, "MutuallyExclusive", TRUE, TRUE)]
    ELSE IF contains_key(c.matches.opts, v.name) /\ ~v.multiple THEN
        [c EXCEPT !.proc = report_error(@, "DuplicateNotAllowed", TRUE, TRUE)]
    ELSE
        LET m == IF contains_key(c.matches.opts, v.name) THEN
                     IF is_some(arg_val) THEN
                         [c.matches EXCEPT
                            !.opts[v.name].occurrences = @ + 1,
                            !.opts[v.name].values = Append(@, unwrap(arg_val))]
                     ELSE c.matches
                 ELSE
                     [c.matches EXCEPT
                        !.opts = insert(@, v.name,
                                   [name |-> v.name, occurrences |-> 1,
                                    values |-> IF is_some(arg_val)
                                               THEN <<unwrap(arg_val)>> ELSE <<>>])]
        IN  [c EXCEPT !.matches = m, !.app = after_match(c.app, m, v),
                      !.ret = IF is_none(arg_val) THEN Some(v.name) ELSE None]

\* c.ret is the Option<name> the function returns
parse_long_arg(c, builtin_first, full_arg) ==
    LET arg0 == trim_left_matches(full_arg, Dash) IN
    IF arg0 = help_str /\ c.app.needs_long_help THEN
        [c EXCEPT !.proc = print_help(@)]
    ELSE IF arg0 = version_str /\ c.app.needs_long_version THEN
        [c EXCEPT !.proc = print_version(@, TRUE)]
    ELSE
        LET has_eq == contains(arg0, Eq)
            arg_vec == split(arg0, Eq)
            arg == IF has_eq THEN arg_vec[1] ELSE arg0
            arg_val == IF has_eq THEN Some(arg_vec[2]) ELSE None
            os == {v \in values(c.app.opts) : is_some(v.long) /\ unwrap(v.long) = arg}
            fs == {v \in values(c.app.flags) : is_some(v.long) /\ unwrap(v.long) = arg}
        IN  IF has_eq /\ Len(arg_vec[2]) = 0 THEN
                [c EXCEPT !.proc = report_error(@, "MissingValue", TRUE, TRUE)]
            ELSE IF os # {} THEN opt_matched(c, CHOOSE v \in os : TRUE, arg_val)
            ELSE IF fs # {} THEN flag_matched(c, first_of(fs, builtin_first), None)
            ELSE [c EXCEPT !.proc = report_error(@, "UnknownArgument", TRUE, TRUE)]

\* parse_cluster passing over the characters that match no flag
RECURSIVE parse_cluster_unknown_skipped(_, _, _)
parse_cluster_unknown_skipped(c, builtin_first, chars) ==
    IF chars = <<>> THEN [c EXCEPT !.ret = None]
    ELSE
        LET p1 == check_for_help_and_version(c.app, c.proc, Head(chars)) IN
        IF terminated(p1) THEN [c EXCEPT !.proc = p1]
        ELSE
            LET c1 == parse_single_short_flag(c, builtin_first, Head(chars)) IN
            IF terminated(c1.proc) THEN c1
            ELSE parse_cluster_unknown_skipped(c1, builtin_first, Tail(chars))

\* the loop of parse_short_arg over the characters of a cluster
RECURSIVE parse_cluster(_, _, _)
parse_cluster(c, builtin_first, chars) ==
    IF chars = <<>> THEN [c EXCEPT !.ret = None]
    ELSE
        LET p1 == check_for_help_and_version(c.app, c.proc, Head(chars)) IN
        IF terminated(p1) THEN [c EXCEPT !.proc = p1]
        ELSE
            LET c1 == parse_single_short_flag(c, builtin_first, Head(chars)) IN
            IF terminated(c1.proc) THEN c1
            ELSE IF ~c1.ret THEN
                [c1 EXCEPT !.proc = report_error(@, "UnknownArgument", TRUE, TRUE)]
            ELSE parse_cluster(c1, builtin_first, Tail(chars))

\* c.ret is the Option<name> the function returns
parse_short_arg(c, builtin_first, full_arg) ==
    LET arg == trim_left_matches(full_arg, Dash) IN
    IF Len(arg) > 1 THEN parse_cluster(c, builtin_first, arg)
    ELSE
        LET arg_c == arg[1]
            p1 == check_for_help_and_version(c.app, c.proc, arg_c)
        IN  IF terminated(p1) THEN [c EXCEPT !.proc = p1]
            ELSE
                LET c1 == parse_single_short_flag(c, builtin_first, arg_c)
                    os == {v \in values(c.app.opts) :
                             is_some(v.short) /\ unwrap(v.short) = arg_c}
                IN  IF terminated(c1.proc) THEN c1
                    ELSE IF c1.ret THEN [c1 EXCEPT !.ret = None]
                    ELSE IF os # {} THEN opt_matched(c, CHOOSE v \in os : TRUE, None)
                    ELSE [c EXCEPT !.proc = report_error(@, "UnknownArgument", TRUE, TRUE)]

\* validate_blacklist without its walk of the exclusion set
validate_blacklist_unchecked(app, matches, p) == {p}

\* the processes validate_blacklist can leave: it walks a HashSet, whose order is
\* not specified, and stops at the first matched name
validate_blacklist(app, matches, p) ==
    LET hit == {n \in app.blacklist : matched(matches, n)} IN
    IF hit = {} THEN {p}
    ELSE {report_error(p, "MutuallyExclusive",
                       contains_key(matches.flags, n) \/ contains_key(matches.opts, n),
                       TRUE) : n \in hit}

----------------------------------------------------------------------------
(* App::subcommand, and one level of get_matches_from *)

subcommand(app, subcmd) ==
    [app EXCEPT
       !.needs_subcmd_help = IF subcmd.name = help_str THEN FALSE ELSE @,
       !.subcommands = insert(@, subcmd.name, subcmd)]

\* the iteration orders the level's flags map can have, as far as a lookup can tell
iteration_orders(app) ==
    LET fs == values(app.flags)
        clash == \E f \in fs, g \in fs :
                    /\ f.name \in BuiltinNames /\ g.name \notin BuiltinNames
                    /\ \/ is_some(f.short) /\ f.short = g.short
                       \/ is_some(f.long) /\ f.long = g.long
    IN  IF clash THEN BOOLEAN ELSE {FALSE}

\* the locals of get_matches_from at the head of its loop, after
\* create_help_and_version
NewLevel(app, builtin_first) ==
    [app |-> app, matches |-> NewMatches, pos_only |-> FALSE, subcmd_name |-> None,
     needs_val_of |-> None, pos_counter |-> 1, builtin_first |-> builtin_first]

\* positional_or_subcommand without the break at a subcommand's name
positional_or_subcommand_unbroken(f, p, arg) ==
    IF contains_key(f.app.subcommands, arg) THEN
        IF arg = help_str THEN [f |-> f, proc |-> print_help(p), brk |-> FALSE]
        ELSE [f |-> [f EXCEPT !.subcmd_name = Some(arg)], proc |-> p, brk |-> FALSE]
    ELSE IF is_empty(f.app.positionals_idx) THEN
        [f |-> f, proc |-> report_error(p, "NoPositionalAccepted", TRUE, TRUE),
         brk |-> FALSE]
    ELSE IF contains_key(f.app.positionals_idx, f.pos_counter) THEN
        LET pb == f.app.positionals_idx[f.pos_counter] IN
        IF pb.name \in f.app.blacklist THEN
            [f |-> f, proc |-> report_error(p, "MutuallyExclusive", TRUE, TRUE),
             brk |-> FALSE]
        ELSE
            LET m == [f.matches EXCEPT
                        !.positionals = insert(@, pb.name,
                                               [name |-> pb.name, value |-> arg])]
            IN  [f |-> [f EXCEPT !.matches = m, !.app = after_match(f.app, m, pb),
                                 !.pos_counter = @ + 1],
                 proc |-> p, brk |-> FALSE]
    ELSE
        [f |-> f, proc |-> report_error(p, "UnexpectedPositional", TRUE, TRUE),
         brk |-> FALSE]

\* the else branch of the loop body: a subcommand or a positional
positional_or_subcommand(f, p, arg) ==
    IF contains_key(f.app.subcommands, arg) THEN
        IF arg = help_str THEN [f |-> f, proc |-> print_help(p), brk |-> FALSE]
        ELSE [f |-> [f EXCEPT !.subcmd_name = Some(arg)], proc |-> p, brk |-> TRUE]
    ELSE IF is_empty(f.app.positionals_idx) THEN
        [f |-> f, proc |-> report_error(p, "NoPositionalAccepted", TRUE, TRUE),
         brk |-> FALSE]
    ELSE IF contains_key(f.app.positionals_idx, f.pos_counter) THEN
        LET pb == f.app.positionals_idx[f.pos_counter] IN
        IF pb.name \in f.app.blacklist THEN
            [f |-> f, proc |-> report_error(p, "MutuallyExclusive", TRUE, TRUE),
             brk |-> FALSE]
        ELSE
            LET m == [f.matches EXCEPT
                        !.positionals = insert(@, pb.name,
                                               [name |-> pb.name, value |-> arg])]
            IN  [f |-> [f EXCEPT !.matches = m, !.app = after_match(f.app, m, pb),
                                 !.pos_counter = @ + 1],
                 proc |-> p, brk |-> FALSE]
    ELSE
        [f |-> f, proc |-> report_error(p, "UnexpectedPositional", TRUE, TRUE),
         brk |-> FALSE]

\* take_value without the end of the wait
take_value_still_awaiting(f, arg) ==
    LET opt == f.app.opts[unwrap(f.needs_val_of)]
        m == IF contains_key(f.matches.opts, opt.name)
             THEN [f.matches EXCEPT
                     !.opts[opt.name].values = Append(@, arg),
                     !.opts[opt.name].occurrences = IF opt.multiple THEN @ + 1 ELSE 1]
             ELSE f.matches
    IN  [f EXCEPT !.matches = m]

\* take_value without the push of the value
take_value_unrecorded(f, arg) == [f EXCEPT !.needs_val_of = None]

\* the value of the option the level is waiting for
take_value(f, arg) ==
    LET opt == f.app.opts[unwrap(f.needs_val_of)]
        m == IF contains_key(f.matches.opts, opt.name)
             THEN [f.matches EXCEPT
                     !.opts[opt.name].values = Append(@, arg),
                     !.opts[opt.name].occurrences = IF opt.multiple THEN @ + 1 ELSE 1]
             ELSE f.matches
    IN  [f EXCEPT !.matches = m, !.needs_val_of = None]

\* token_class with the test for the separator ahead of the one for an awaited value
token_class_separator_first(f, arg) ==
    IF arg = <<Dash, Dash>> /\ ~f.pos_only THEN "separator"
    ELSE IF /\ ~f.pos_only /\ is_some(f.needs_val_of)
            /\ contains_key(f.app.opts, unwrap(f.needs_val_of)) THEN "value"
    ELSE IF starts_with(arg, <<Dash, Dash>>) /\ ~f.pos_only THEN "long"
    ELSE IF starts_with(arg, <<Dash>>) /\ Len(arg) # 1 /\ ~f.pos_only THEN "short"
    ELSE "bare"

\* how the loop body classifies a token
token_class(f, arg) ==
    IF /\ ~f.pos_only /\ is_some(f.needs_val_of)
       /\ contains_key(f.app.opts, unwrap(f.needs_val_of)) THEN "value"
    ELSE IF starts_with(arg, <<Dash, Dash>>) /\ ~f.pos_only THEN
        IF Len(arg) = 2 THEN "separator" ELSE "long"
    ELSE IF starts_with(arg, <<Dash>>) /\ Len(arg) # 1 /\ ~f.pos_only THEN "short"
    ELSE "bare"

\* one pass of the loop body: the level after it, the process, and whether the
\* loop was left by break
loop_body(f, p, arg) ==
    LET c0 == [app |-> f.app, matches |-> f.matches, proc |-> p, ret |-> None]
        into(c) == [f |-> [f EXCEPT !.app = c.app, !.matches = c.matches,
                                    !.needs_val_of = c.ret],
                    proc |-> c.proc, brk |-> FALSE]
        cls == token_class(f, arg)
    IN  IF cls = "value" THEN [f |-> take_value(f, arg), proc |-> p, brk |-> FALSE]
        ELSE IF cls = "separator" THEN
            [f |-> [f EXCEPT !.pos_only = TRUE], proc |-> p, brk |-> FALSE]
        ELSE IF cls = "long" THEN into(parse_long_arg(c0, f.builtin_first, arg))
        ELSE IF cls = "short" THEN into(parse_short_arg(c0, f.builtin_first, arg))
        ELSE positional_or_subcommand(f, p, arg)

\* end_of_level without its check of a value still awaited
end_of_level_value_unchecked(f, p) ==
    IF f.app.required # {} THEN {report_error(p, "MissingRequired", TRUE, TRUE)}
    ELSE validate_blacklist(f.app, f.matches, p)

\* the checks after the loop: the processes they can leave
end_of_level(f, p) ==
    IF is_some(f.needs_val_of) THEN {report_error(p, "MissingValue", TRUE, TRUE)}
    ELSE IF f.app.required # {} THEN {report_error(p, "MissingRequired", TRUE, TRUE)}
    ELSE validate_blacklist(f.app, f.matches, p)

\* the ArgMatches of level i once every deeper level has returned
RECURSIVE attach(_, _)
attach(fs, i) ==
    IF i = Len(fs) THEN fs[i].matches
    ELSE [fs[i].matches EXCEPT
            !.subcommand = Some([name |-> fs[i + 1].app.name,
                                 matches |-> attach(fs, i + 1)])]

----------------------------------------------------------------------------
(* The declarations and tokens the checks draw from *)

Arg(n) == [name |-> n, short |-> None, long |-> None, required |-> FALSE,
           multiple |-> FALSE, takes_value |-> FALSE, index |-> None,
           blacklist |-> {}, requires |-> {}]

name_str == <<"n", "a", "m", "e">>
tag_str == <<"t", "a", "g">>
config_str == <<"c", "o", "n", "f", "i", "g">>
verbose_str == <<"v", "e", "r", "b", "o", "s", "e">>
sub_str == <<"s", "u", "b">>

\* Flag config (-c, --config), Option name (-n, --name), repeatable Option tag
a_config == [Arg("config") EXCEPT !.short = Some("c"), !.long = Some(config_str)]
a_name == [Arg("name") EXCEPT !.short = Some("n"), !.long = Some(name_str),
                              !.takes_value = TRUE]
a_tag == [Arg("tag") EXCEPT !.short = Some("t"), !.long = Some(tag_str),
                            !.takes_value = TRUE, !.multiple = TRUE]
\* repeatable Flags verbose (-v, --verbose) and debug (-d)
a_verbose == [Arg("verbose") EXCEPT !.short = Some("v"), !.long = Some(verbose_str),
                                    !.multiple = TRUE]
a_debug == [Arg("debug") EXCEPT !.short = Some("d"), !.multiple = TRUE]
\* Positionals in (1), out (2), log (3)
a_in == [Arg("in") EXCEPT !.index = Some(1)]
a_out == [Arg("out") EXCEPT !.index = Some(2)]
a_log == [Arg("log") EXCEPT !.index = Some(3)]
\* Flags that share the short, or the long, of config under another name
a_conf_c == [Arg("conf") EXCEPT !.short = Some("c")]
a_cfg_long == [Arg("cfg") EXCEPT !.long = Some(config_str)]

\* Arg::mutually_excludes(n) and Arg::requires(n)
mutually_excludes(a, n) == [a EXCEPT !.blacklist = @ \cup {n}]
requires(a, n) == [a EXCEPT !.requires = @ \cup {n}]

\* Arg::required(true)
required(a) == [a EXCEPT !.required = TRUE]

\* Flags f (-f) and g (-g), Options o (-o, --o) and q (-q, --q)
a_f == [Arg("f") EXCEPT !.short = Some("f")]
a_g == [Arg("g") EXCEPT !.short = Some("g")]
a_o == [Arg("o") EXCEPT !.short = Some("o"), !.long = Some(<<"o">>),
                        !.takes_value = TRUE]
a_q == [Arg("q") EXCEPT !.short = Some("q"), !.long = Some(<<"q">>),
                        !.takes_value = TRUE]

\* Flags and Options that take a long or short form of the built-in help and
\* version flags
a_help == [Arg("help") EXCEPT !.long = Some(help_str)]
a_h == [Arg("h") EXCEPT !.short = Some("h")]
a_version == [Arg("version") EXCEPT !.long = Some(version_str)]
a_opt_help == [Arg("ohelp") EXCEPT !.long = Some(help_str), !.takes_value = TRUE]
a_opt_h == [Arg("oh") EXCEPT !.short = Some("h"), !.takes_value = TRUE]
a_opt_version == [Arg("oversion") EXCEPT !.long = Some(version_str),
                                         !.takes_value = TRUE]
a_opt_v == [Arg("ov") EXCEPT !.short = Some("v"), !.takes_value = TRUE]

\* f, o, in and out with an exclusion set: between them, every combination of a
\* flag, an option and a positional as the excluding and the excluded argument
x_f == mutually_excludes(mutually_excludes(mutually_excludes(a_f, "g"), "o"), "in")
x_o == mutually_excludes(mutually_excludes(mutually_excludes(a_o, "f"), "q"), "in")
x_in == mutually_excludes(mutually_excludes(mutually_excludes(a_in, "f"), "o"), "out")
x_out == mutually_excludes(a_out, "in")

\* a Positional out2 with the index of in
a_out_1 == [Arg("out2") EXCEPT !.index = Some(1)]

\* the pairs (A, B) of declarations in which A depends on B
Dependencies == {<<a_f, a_g>>, <<a_f, a_o>>, <<a_o, a_f>>, <<a_o, a_in>>,
                 <<a_in, a_f>>, <<a_in, a_o>>}

long_tok(l) == <<Dash, Dash>> \o l
short_tok(cs) == <<Dash>> \o cs
inline_tok(l, v) == <<Dash, Dash>> \o l \o <<Eq>> \o v
separator == <<Dash, Dash>>

PoolOf(p) ==
    CASE p = "opts" ->
           [args |-> {a_config, a_name, a_tag},
            subs |-> {sub_str},
            toks |-> {short_tok(<<"n">>), long_tok(name_str),
                      inline_tok(name_str, <<"a">>),
                      inline_tok(name_str, <<"a", Eq, "b">>),
                      short_tok(<<"t">>), long_tok(tag_str),
                      inline_tok(tag_str, <<"a">>), inline_tok(tag_str, <<"b">>),
                      inline_tok(tag_str, <<"a", Eq, "b">>),
                      short_tok(<<"c">>), <<"a">>, <<"b">>, sub_str}]
      [] p = "flags" ->
           [args |-> {a_config, a_verbose, a_debug},
            subs |-> {sub_str},
            toks |-> {short_tok(<<"c">>), long_tok(config_str), short_tok(<<"v">>),
                      long_tok(verbose_str), short_tok(<<"d">>),
                      short_tok(<<"c", "d">>), short_tok(<<"d", "d">>), sub_str}]
      [] p = "pos" ->
           [args |-> {a_in, a_out, a_log, a_config},
            subs |-> {sub_str},
            toks |-> {separator, sub_str, short_tok(<<"c">>), <<"a">>, <<"b">>}]
      [] p = "excl" ->
           [args |-> {a_f, a_g, a_o, a_q, a_in, a_out, x_f, x_o, x_in, x_out},
            subs |-> {sub_str},
            toks |-> {short_tok(<<"f">>), short_tok(<<"g">>), short_tok(<<"o">>),
                      inline_tok(<<"o">>, <<"a">>), inline_tok(<<"q">>, <<"a">>),
                      <<"a">>, sub_str}]
      [] p = "req" ->
           [args |-> {a_f, a_g, a_o, a_in}
                       \cup {requires(pr[1], pr[2].name) : pr \in Dependencies},
            subs |-> {sub_str},
            toks |-> {short_tok(<<"f">>), short_tok(<<"g">>), short_tok(<<"o">>),
                      short_tok(<<"f", "g">>), inline_tok(<<"o">>, <<"a">>),
                      <<"a">>, sub_str}]
      [] p = "cluster" ->
           [args |-> {a_config, a_debug, a_f, a_name},
            subs |-> {sub_str},
            toks |-> {short_tok(<<"c">>), short_tok(<<"c", "d">>),
                      short_tok(<<"c", "d", "z">>), short_tok(<<"z", "c">>),
                      short_tok(<<"d", "n">>), short_tok(<<"c", "c", "z">>),
                      short_tok(<<"h", "z">>), short_tok(<<"d", "v">>),
                      short_tok(<<"n">>), sub_str}]
      [] p = "required" ->
           [args |-> {a_f, a_g, a_o, a_in, required(a_o), required(a_in),
                      requires(a_f, "o"), requires(a_f, "g"), requires(a_g, "in"),
                      requires(a_o, "f"), requires(a_in, "o")},
            subs |-> {sub_str},
            toks |-> {short_tok(<<"f">>), short_tok(<<"g">>), short_tok(<<"f", "g">>),
                      short_tok(<<"g", "f">>), short_tok(<<"o">>),
                      inline_tok(<<"o">>, <<"a">>), <<"a">>, sub_str}]
      [] p = "builtin" ->
           [args |-> {a_help, a_h, a_version, a_verbose,
                      a_opt_help, a_opt_h, a_opt_version, a_opt_v},
            subs |-> {sub_str, help_str},
            toks |-> {long_tok(help_str), short_tok(<<"h">>), long_tok(version_str),
                      short_tok(<<"v">>), <<"a">>, sub_str, help_str}]
      [] p = "shape" ->
           [args |-> {a_f, a_o, a_in, required(a_o), required(a_in), required(a_f),
                      [a_in EXCEPT !.short = Some("i")],
                      [a_in EXCEPT !.long = Some(<<"i", "n">>)],
                      [a_in EXCEPT !.multiple = TRUE],
                      [a_in EXCEPT !.takes_value = TRUE],
                      [Arg("o") EXCEPT !.takes_value = TRUE],
                      Arg("f")},
            subs |-> {sub_str},
            toks |-> {short_tok(<<"f">>), inline_tok(<<"o">>, <<"a">>), <<"a">>,
                      sub_str}]
      [] p = "help" ->
           [args |-> {a_f, a_o, required(a_o), a_in, required(a_in)},
            subs |-> {sub_str},
            toks |-> {long_tok(help_str), long_tok(version_str), short_tok(<<"h">>),
                      short_tok(<<"v">>), short_tok(<<"f", "h">>), short_tok(<<"f">>),
                      short_tok(<<"o">>), <<"a">>, sub_str, help_str}]
      [] p = "value" ->
           [args |-> {a_o, a_tag, a_f, a_in, required(a_o)},
            subs |-> {sub_str},
            toks |-> {short_tok(<<"o">>), long_tok(<<"o">>), short_tok(<<"t">>),
                      short_tok(<<"f">>), separator, long_tok(help_str), <<"a">>,
                      sub_str}]
      [] p = "inline" ->
           [args |-> {a_o, a_tag, a_f},
            subs |-> {sub_str},
            toks |-> {inline_tok(<<"o">>, <<"a">>), inline_tok(<<"o">>, <<"a", Eq, "b">>),
                      inline_tok(<<"o">>, <<>>), inline_tok(<<"o">>, <<Eq, "b">>),
                      inline_tok(tag_str, <<"a", Eq, "b">>), inline_tok(tag_str, <<"b">>),
                      inline_tok(tag_str, <<>>), inline_tok(<<"z">>, <<>>),
                      inline_tok(help_str, <<"a">>), short_tok(<<"f">>), sub_str}]
      [] p = "dispatch" ->
           [args |-> {a_g, mutually_excludes(a_f, "g"), required(a_o), a_in},
            subs |-> {sub_str, help_str},
            toks |-> {short_tok(<<"f">>), short_tok(<<"g">>), short_tok(<<"o">>),
                      inline_tok(<<"o">>, <<"a">>), <<"a">>, sub_str, help_str}]
      [] p = "index" ->
           [args |-> {a_in, required(a_in), a_out_1, required(a_out_1), a_out, a_f,
                      required(a_o)},
            subs |-> {sub_str},
            toks |-> {<<"a">>, <<"b">>, short_tok(<<"f">>), inline_tok(<<"o">>, <<"a">>),
                      sub_str}]
      [] p = "build" ->
           [args |-> {a_config, a_conf_c, a_cfg_long, a_name},
            subs |-> {sub_str},
            toks |-> {short_tok(<<"c">>), long_tok(config_str), sub_str, <<"a">>}]

----------------------------------------------------------------------------
(* Actions *)

Top(s) == s[Len(s)]
SetTop(s, x) == [s EXCEPT ![Len(s)] = x]
Pop(s) == SubSeq(s, 1, Len(s) - 1)

Init ==
    /\ phase = "build"
    /\ stack = <<NewApp(<<"p">>)>>
    /\ logs = << <<>> >>
    /\ panic = None
    /\ frames = <<>>
    /\ proc = NewProc
    /\ consumed = <<>>
    /\ exhausted = FALSE
    /\ result = None
    /\ used = [args |-> 0, subs |-> 0]

\* SubCommand::new(n), evaluated as an argument of subcommand()
NewSubCommand ==
    /\ phase = "build"
    /\ Len(stack) = 1
    /\ used.subs < MaxSubs
    /\ \E n \in PoolOf(pool).subs :
         /\ stack' = Append(stack, NewApp(n))
         /\ logs' = Append(logs, <<>>)
    /\ used' = [used EXCEPT !.subs = @ + 1]
    /\ UNCHANGED <<phase, panic, frames, proc, consumed, exhausted, result, pool>>

\* .arg(a) on the App being built
ArgCall ==
    /\ phase = "build"
    /\ used.args < MaxArgs
    /\ \E a \in PoolOf(pool).args :
         LET pn == arg_panic(Top(stack), a) IN
         IF is_some(pn) THEN
             /\ phase' = "panicked"
             /\ panic' = Some([kind |-> unwrap(pn), arg |-> a])
             /\ UNCHANGED <<stack, logs>>
         ELSE
             /\ stack' = SetTop(stack, arg_insert(Top(stack), a))
             /\ logs' = SetTop(logs, Append(Top(logs), a))
             /\ UNCHANGED <<phase, panic>>
    /\ used' = [used EXCEPT !.args = @ + 1]
    /\ UNCHANGED <<frames, proc, consumed, exhausted, result, pool>>

\* .subcommand(subcmd) with the innermost App as subcmd
SubcommandCall ==
    /\ phase = "build"
    /\ Len(stack) >= 2
    /\ stack' = SetTop(Pop(stack), subcommand(stack[Len(stack) - 1], Top(stack)))
    /\ logs' = Pop(logs)
    /\ UNCHANGED <<phase, panic, frames, proc, consumed, exhausted, result, used, pool>>

\* .get_matches(): up to the head of the loop of get_matches_from
GetMatches ==
    /\ phase = "build"
    /\ Len(stack) = 1
    /\ LET app == create_help_and_version(stack[1]) IN
       \E o \in iteration_orders(app) : frames' = <<NewLevel(app, o)>>
    /\ phase' = "parse"
    /\ stack' = <<>>
    /\ logs' = <<>>
    /\ UNCHANGED <<panic, proc, consumed, exhausted, result, used, pool>>

\* it.next() is Some(arg): one pass of the loop and, when it breaks on a
\* subcommand, the checks after the loop and the call of the subcommand's
\* get_matches_from up to the head of its loop
NextToken ==
    /\ phase = "parse"
    /\ Len(consumed) < MaxTokens
    /\ \E arg \in PoolOf(pool).toks :
         LET r == loop_body(Top(frames), proc, arg) IN
         /\ consumed' = Append(consumed, [token |-> arg, level |-> Len(frames),
                                           class |-> token_class(Top(frames), arg)])
         /\ IF terminated(r.proc) THEN
                /\ phase' = "exited"
                /\ proc' = r.proc
                /\ UNCHANGED frames
            ELSE IF r.brk THEN
                \E p2 \in end_of_level(r.f, r.proc) :
                    /\ proc' = p2
                    /\ IF terminated(p2) THEN
                           /\ phase' = "exited"
                           /\ frames' = SetTop(frames, r.f)
                       ELSE
                           LET sc == create_help_and_version(
                                        r.f.app.subcommands[unwrap(r.f.subcmd_name)])
                           IN  /\ phase' = "parse"
                               /\ \E o \in iteration_orders(sc) :
                                    frames' = Append(SetTop(frames, r.f), NewLevel(sc, o))
            ELSE
                /\ frames' = SetTop(frames, r.f)
                /\ UNCHANGED <<phase, proc>>
    /\ UNCHANGED <<stack, logs, panic, exhausted, result, used, pool>>

\* it.next() is None: the checks after the loop of the innermost level, and the
\* return of every level
EndOfInput ==
    /\ phase = "parse"
    /\ exhausted' = TRUE
    /\ \E p2 \in end_of_level(Top(frames), proc) :
         /\ proc' = p2
         /\ IF terminated(p2) THEN
                /\ phase' = "exited"
                /\ UNCHANGED result
            ELSE
                /\ phase' = "done"
                /\ result' = Some(attach(frames, 1))
    /\ UNCHANGED <<stack, logs, panic, frames, consumed, used, pool>>

Next ==
    \/ NewSubCommand
    \/ ArgCall
    \/ SubcommandCall
    \/ GetMatches
    \/ NextToken
    \/ EndOfInput

----------------------------------------------------------------------------
(* Specifications: one per set of declarations and tokens *)

InitOpts == Init /\ pool = "opts"
InitFlags == Init /\ pool = "flags"
InitPos == Init /\ pool = "pos"
InitBuild == Init /\ pool = "build"

InitExcl == Init /\ pool = "excl"
InitReq == Init /\ pool = "req"
InitCluster == Init /\ pool = "cluster"
InitRequired == Init /\ pool = "required"
InitBuiltin == Init /\ pool = "builtin"
InitShape == Init /\ pool = "shape"
InitHelp == Init /\ pool = "help"
InitValue == Init /\ pool = "value"
InitInline == Init /\ pool = "inline"
InitDispatch == Init /\ pool = "dispatch"
InitIndex == Init /\ pool = "index"

Spec == InitOpts /\ [][Next]_vars
SpecFlags == InitFlags /\ [][Next]_vars
SpecPos == InitPos /\ [][Next]_vars
SpecBuild == InitBuild /\ [][Next]_vars
SpecExcl == InitExcl /\ [][Next]_vars
SpecReq == InitReq /\ [][Next]_vars
SpecCluster == InitCluster /\ [][Next]_vars
SpecRequired == InitRequired /\ [][Next]_vars
SpecBuiltin == InitBuiltin /\ [][Next]_vars
SpecShape == InitShape /\ [][Next]_vars
SpecIndex == InitIndex /\ [][Next]_vars
SpecDispatch == InitDispatch /\ [][Next]_vars
SpecInline == InitInline /\ [][Next]_vars
SpecValue == InitValue /\ [][Next]_vars
SpecHelp == InitHelp /\ [][Next]_vars

----------------------------------------------------------------------------
(* Properties *)

printed(what) == \E i \in 1..Len(proc.stdout) : proc.stdout[i] = what

FatalKinds == {"UnknownArgument", "MissingValue", "DuplicateNotAllowed",
               "MissingRequired", "MutuallyExclusive", "UnexpectedPositional",
               "NoPositionalAccepted"}

fatal == \E k \in FatalKinds : printed(k)

Tokens == [i \in 1..Len(consumed) |-> consumed[i].token]

\* C1: every fatal runtime diagnostic ends the process with exit status 1, and
\* the display of help or version ends it with status 0.
C1_FatalExitsWithStatusOne ==
    phase = "exited" =>
        IF fatal THEN proc.exit_code = Some(1) ELSE proc.exit_code = Some(0)

\* C6: when the token stream is exhausted while the innermost level still awaits
\* the value of an option, the parse ends in the fatal MissingValue and returns
\* no result; so it does for the lone token --name of a declared option name.
C6_MissingValueAtExhaustion ==
    /\ (exhausted /\ is_some(Top(frames).needs_val_of)) =>
           (phase = "exited" /\ printed("MissingValue") /\ result = None)
    /\ (exhausted /\ Tokens = <<long_tok(name_str)>>
          /\ contains_key(frames[1].app.opts, "name")) =>
           (phase = "exited" /\ printed("MissingValue") /\ result = None)

\* the stream ended right after the short form of the repeatable option tag
C6_Witness ==
    /\ exhausted
    /\ Len(consumed) = 3
    /\ consumed[3].token = short_tok(<<"t">>)
    /\ consumed[3].class = "short"
    /\ Top(frames).needs_val_of = Some("tag")
    /\ printed("MissingValue")

same_short(a, b) == is_some(a.short) /\ a.short = b.short
same_long(a, b) == is_some(a.long) /\ a.long = b.long

\* C10: arg() with a name, short or long that an earlier arg() on the same
\* registry used fails at construction, before any parse; what a parent registry
\* or a subcommand registry uses does not count.
C10_DuplicatesFailAtConstruction ==
    /\ \A k \in 1..Len(logs) : \A i, j \in 1..Len(logs[k]) :
         i < j => /\ logs[k][i].name # logs[k][j].name
                  /\ ~same_short(logs[k][i], logs[k][j])
                  /\ ~same_long(logs[k][i], logs[k][j])
    /\ phase = "panicked" =>
         /\ consumed = <<>> /\ frames = <<>> /\ ~exhausted
         /\ LET a == unwrap(panic).arg
                k == unwrap(panic).kind
                earlier == {Top(logs)[i] : i \in 1..Len(Top(logs))}
            IN  /\ k = "DupName" => \E b \in earlier : b.name = a.name
                /\ k = "DupShort" => \E b \in earlier : same_short(a, b)
                /\ k = "DupLong" => \E b \in earlier : same_long(a, b)
    /\ phase \in {"parse", "done", "exited"} => panic = None

\* config is declared on the parent and on the subcommand, and declaring it a
\* second time on the subcommand has failed
C10_Witness ==
    /\ phase = "panicked"
    /\ unwrap(panic).kind = "DupName"
    /\ Len(logs) = 2
    /\ logs[1] = <<a_config>>
    /\ logs[2] = <<a_config>>
    /\ unwrap(panic).arg = a_config

----------------------------------------------------------------------------
(* What the tokens of the first level say, read from the history alone *)

Root == frames[1]
Level1 == SelectSeq(consumed, LAMBDA e : e.level = 1)

user_flags(app) == {v \in values(app.flags) : v.name \notin BuiltinNames}

RECURSIVE count_char(_, _)
count_char(cs, c) ==
    IF cs = <<>> THEN 0
    ELSE (IF Head(cs) = c THEN 1 ELSE 0) + count_char(Tail(cs), c)

\* how many times the token names the flag v: its long form, or its short
\* character in a short token or cluster
appearances_in(tok, v) ==
    IF starts_with(tok, <<Dash, Dash>>) THEN
        IF is_some(v.long) /\ tok = long_tok(unwrap(v.long)) THEN 1 ELSE 0
    ELSE IF starts_with(tok, <<Dash>>) /\ is_some(v.short) THEN
        count_char(Tail(tok), unwrap(v.short))
    ELSE 0

RECURSIVE appearances(_, _)
appearances(es, v) ==
    IF es = <<>> THEN 0 ELSE appearances_in(Head(es).token, v) + appearances(Tail(es), v)

\* the token is the long form of a declared flag, or a short token or cluster
\* made of short characters of declared flags
flag_token(app, tok) ==
    IF starts_with(tok, <<Dash, Dash>>) THEN
        \E v \in user_flags(app) : is_some(v.long) /\ tok = long_tok(unwrap(v.long))
    ELSE /\ starts_with(tok, <<Dash>>) /\ Len(tok) > 1
         /\ \A i \in 2..Len(tok) :
              \E v \in user_flags(app) : v.short = Some(tok[i])

flag_count(matches, n) ==
    IF contains_key(matches.flags, n) THEN matches.flags[n].occurrences ELSE 0

\* C2: when every token is a declared flag (long form, short form or cluster),
\* the result counts each flag as often as it appeared if it is repeatable, and
\* once if it appeared and is not.
C2_FlagCountsEqualAppearances ==
    (phase = "done" /\ Len(Level1) = Len(consumed)
       /\ \A i \in 1..Len(consumed) : flag_token(Root.app, consumed[i].token)) =>
        \A v \in user_flags(Root.app) :
            flag_count(unwrap(result), v.name) =
                IF v.multiple THEN appearances(consumed, v)
                ELSE Min2(appearances(consumed, v), 1)

\* what a level makes of a token sequence of its own (no subcommand among them):
\* whether it returns, what it prints, and its ArgMatches
RECURSIVE level_outcomes(_, _, _)
level_outcomes(f, p, toks) ==
    IF toks = <<>> THEN
        {[ok |-> ~terminated(p2), stdout |-> p2.stdout,
          matches |-> IF terminated(p2) THEN NewMatches ELSE f.matches] :
            p2 \in end_of_level(f, p)}
    ELSE
        LET r == loop_body(f, p, Head(toks)) IN
        IF terminated(r.proc)
        THEN {[ok |-> FALSE, stdout |-> r.proc.stdout, matches |-> NewMatches]}
        ELSE level_outcomes(r.f, r.proc, Tail(toks))

\* the three ways to supply value v to option o
forms(o, v) == {<<short_tok(<<unwrap(o.short)>>), v>>,
                <<long_tok(unwrap(o.long)), v>>,
                <<inline_tok(unwrap(o.long), v)>>}

\* the entries option o gets from the tokens: None when the parse fails
opt_entries(f, o, toks) ==
    {IF r.ok /\ contains_key(r.matches.opts, o.name)
     THEN Some([occurrences |-> r.matches.opts[o.name].occurrences,
                values |-> r.matches.opts[o.name].values])
     ELSE None : r \in level_outcomes(f, proc, toks)}

Values == {<<"a">>, <<"b">>}

\* C3: an option with a short and a long form gets the same entry (occurrence
\* count and values) from -s v, --long v and --long=v, also when the forms are
\* mixed over two occurrences.
C3_FormsInterchangeable ==
    (phase = "parse" /\ consumed = <<>>) =>
        \A o \in values(Root.app.opts) :
            (is_some(o.short) /\ is_some(o.long)) =>
                /\ \A v \in Values : \A t1, t2 \in forms(o, v) :
                     opt_entries(Root, o, t1) = opt_entries(Root, o, t2)
                /\ \A v, w \in Values :
                     \A t1, t2 \in forms(o, v) : \A u1, u2 \in forms(o, w) :
                        opt_entries(Root, o, t1 \o u1) = opt_entries(Root, o, t2 \o u2)

\* the text after the first "=" of a token
after_first_eq(tok) == SubSeq(tok, find(tok, Eq, 1) + 1, Len(tok))
\* the text between the dashes and the first "=" of a token
long_name_of(tok) ==
    LET t == trim_left_matches(tok, Dash) IN SubSeq(t, 1, find(t, Eq, 1) - 1)

\* entry i of the history is an occurrence of option o
occurrence_of(es, i, o) ==
    \/ /\ es[i].class = "long" /\ is_some(o.long)
       /\ long_name_of(es[i].token) = unwrap(o.long)
    \/ /\ es[i].class = "short" /\ is_some(o.short)
       /\ es[i].token = short_tok(<<unwrap(o.short)>>)

\* the values the tokens supply to option o, in token order
RECURSIVE supplied(_, _, _)
supplied(es, i, o) ==
    IF i > Len(es) THEN <<>>
    ELSE IF occurrence_of(es, i, o) THEN
        IF contains(es[i].token, Eq)
        THEN <<after_first_eq(es[i].token)>> \o supplied(es, i + 1, o)
        ELSE IF i < Len(es) THEN <<es[i + 1].token>> \o supplied(es, i + 2, o)
        ELSE <<>>
    ELSE supplied(es, i + 1, o)

recorded(matches, n) ==
    IF contains_key(matches.opts, n) THEN matches.opts[n].values ELSE <<>>

\* C4: the values recorded for a repeatable option are the values its tokens
\* supplied, in token order, none lost and none duplicated.
C4_ValuesInTokenOrder ==
    phase = "done" =>
        \A o \in values(Root.app.opts) :
            o.multiple => recorded(unwrap(result), o.name) = supplied(Level1, 1, o)

\* C5: with the non-repeatable option name (-n, --name) and the flag config (-c),
\* --name=v gives name one occurrence and the values [v] and matches no flag;
\* -n v -c gives the same entry and config with one occurrence.
C5_NameAndConfigExample ==
    (exhausted /\ contains_key(Root.app.opts, "name")
       /\ contains_key(Root.app.flags, "config")) =>
        /\ (Len(consumed) = 1 /\ starts_with(Tokens[1], inline_tok(name_str, <<>>))
              /\ Len(Tokens[1]) > Len(inline_tok(name_str, <<>>))) =>
               /\ phase = "done"
               /\ unwrap(result).opts =
                    [n \in {"name"} |->
                       [name |-> "name", occurrences |-> 1,
                        values |-> <<after_first_eq(Tokens[1])>>]]
               /\ unwrap(result).flags = EmptyMap
        /\ (Len(consumed) = 3 /\ Tokens[1] = short_tok(<<"n">>)
              /\ Tokens[3] = short_tok(<<"c">>)) =>
               /\ phase = "done"
               /\ unwrap(result).opts =
                    [n \in {"name"} |->
                       [name |-> "name", occurrences |-> 1, values |-> <<Tokens[2]>>]]
               /\ unwrap(result).flags =
                    [n \in {"config"} |-> [name |-> "config", occurrences |-> 1]]

\* C7: once the separator -- has been consumed, no later token of the stream is
\* handled as a long or short flag or option, and the parse stays
\* positional-only.
C7_SeparatorIsPermanent ==
    \A i \in 1..Len(consumed) :
        consumed[i].class = "separator" =>
            /\ \A j \in (i + 1)..Len(consumed) : consumed[j].class \notin {"long", "short"}
            /\ phase = "parse" => Top(frames).pos_only

Min(S) == CHOOSE x \in S : \A y \in S : x <= y

RECURSIVE kth_smallest(_, _)
kth_smallest(S, k) == IF k = 1 THEN Min(S) ELSE kth_smallest(S \ {Min(S)}, k - 1)

\* the tokens the first level handled as positionals: bare, and not the name of
\* a subcommand
positional_tokens ==
    SelectSeq(Level1, LAMBDA e : e.class = "bare"
                                   /\ ~contains_key(Root.app.subcommands, e.token))

\* C8: the k-th positional token of a level is stored under the positional whose
\* declared index is the k-th smallest, and a later token never overwrites it.
C8_SlotsFillInIndexOrder ==
    phase \in {"parse", "done", "exited"} =>
        LET idx == DOMAIN Root.app.positionals_idx IN
        \A k \in 1..Min2(Len(positional_tokens), Cardinality(idx)) :
            LET n == Root.app.positionals_idx[kth_smallest(idx, k)].name IN
            /\ contains_key(Root.matches.positionals, n)
            /\ Root.matches.positionals[n].value = positional_tokens[k].token

last_token == consumed[Len(consumed)]

\* some declared positional of the level has no value yet
unfilled_slot(f) ==
    \E i \in DOMAIN f.app.positionals_idx :
        ~contains_key(f.matches.positionals, f.app.positionals_idx[i].name)

\* C9: a bare token that names no subcommand fails as an unexpected positional
\* exactly when its level declares no positional or has filled them all.
C9_UnexpectedPositionalIff ==
    (consumed # <<>> /\ ~exhausted /\ last_token.level = Len(frames)
       /\ last_token.class = "bare"
       /\ ~contains_key(Top(frames).app.subcommands, last_token.token)) =>
        /\ phase = "exited" =>
             /\ printed("UnexpectedPositional") \/ printed("NoPositionalAccepted")
             /\ ~unfilled_slot(Top(frames))
        /\ phase = "parse" =>
             \E n \in DOMAIN Top(frames).matches.positionals :
                 Top(frames).matches.positionals[n].value = last_token.token

----------------------------------------------------------------------------
(* Mutual exclusion and dependencies *)

\* the name, exclusion set and dependency set of every spec of the registry
declared(app) ==
    {[name |-> v.name, blacklist |-> v.blacklist, requires |-> v.requires] :
        v \in values(app.flags)}
    \cup {[name |-> v.name, blacklist |-> v.blacklist, requires |-> v.requires] :
        v \in values(app.opts)}
    \cup {[name |-> v.name, blacklist |-> v.blacklist, requires |-> v.requires] :
        v \in values(app.positionals_idx)}

\* the level has matched some A and some B that A excludes
excluding_pair(f) ==
    \E A \in declared(f.app) : \E B \in declared(f.app) :
        /\ B.name \in A.blacklist
        /\ matched(f.matches, A.name)
        /\ matched(f.matches, B.name)

\* the token the level of the innermost frame has just taken is the name of one
\* of its subcommands
subcommand_token(e) ==
    /\ e.class = "bare"
    /\ e.level <= Len(frames)
    /\ contains_key(frames[e.level].app.subcommands, e.token)

\* level k is the innermost one and has run the checks after its loop: the
\* stream is exhausted, or the last token is the subcommand token level k took
level_ended(k) ==
    /\ k = Len(frames)
    /\ \/ exhausted
       \/ consumed # <<>> /\ last_token.level = k /\ subcommand_token(last_token)

\* the names of the specs token e names at level f, f as it was before the token
named_by(f, e) ==
    IF e.class = "long" THEN
        {v.name : v \in {w \in values(f.app.flags) \cup values(f.app.opts) :
                           w.long = Some(long_name_of(e.token))}}
    ELSE IF e.class = "short" THEN
        {v.name : v \in {w \in values(f.app.flags) \cup values(f.app.opts) :
                           is_some(w.short) /\ contains(Tail(e.token), unwrap(w.short))}}
    ELSE IF e.class = "bare" /\ contains_key(f.app.positionals_idx, f.pos_counter)
         THEN {f.app.positionals_idx[f.pos_counter].name}
    ELSE {}

C11_WitnessAFirst ==
    /\ phase = "exited"
    /\ ~exhausted
    /\ Tokens = <<<<"a">>, short_tok(<<"f">>)>>
    /\ contains_key(Root.matches.positionals, "in")
    /\ "f" \in Root.app.positionals_idx[1].blacklist
    /\ printed("MutuallyExclusive")

dependency_unmet(f) ==
    \E A \in declared(f.app) :
        /\ matched(f.matches, A.name)
        /\ \E n \in A.requires : ~matched(f.matches, n)

C12_WitnessMet ==
    /\ phase = "done"
    /\ Tokens = <<inline_tok(<<"o">>, <<"a">>), short_tok(<<"f">>)>>
    /\ "o" \in Root.app.flags["f"].requires

----------------------------------------------------------------------------
(* Clusters of short flags *)

\* the characters of a short token
chars_of(tok) == Tail(tok)

\* c is the short form of no flag of the registry
no_flag(app, c) == ~\E v \in values(app.flags) : v.short = Some(c)

\* c is the help or version short-cut, which is looked at before the flags
shortcut(app, c) ==
    \/ c = "h" /\ app.needs_short_help
    \/ c = "v" /\ app.needs_short_version

\* character j of the cluster cs asks again for a flag that does not repeat
repeats(f, cs, j) ==
    \E v \in values(f.app.flags) :
        /\ v.short = Some(cs[j]) /\ ~v.multiple
        /\ \/ contains_key(f.matches.flags, v.name)
           \/ \E i \in 1..(j - 1) : cs[i] = cs[j]

\* the last token is a cluster, and i is the first of its characters that is the
\* short form of no flag
first_unknown(f, i) ==
    /\ consumed # <<>>
    /\ last_token.class = "short"
    /\ Len(chars_of(last_token.token)) > 1
    /\ i \in 1..Len(chars_of(last_token.token))
    /\ no_flag(f.app, chars_of(last_token.token)[i])
    /\ \A j \in 1..(i - 1) : ~no_flag(f.app, chars_of(last_token.token)[j])

C13_WitnessOption ==
    /\ phase = "exited"
    /\ Tokens = <<short_tok(<<"d", "n">>)>>
    /\ contains_key(Root.app.flags, "debug")
    /\ contains_key(Root.app.opts, "name")
    /\ printed("UnknownArgument")

----------------------------------------------------------------------------
(* The remaining-required set *)

\* the entry the level's ArgMatches holds for the name n, None when it has none
entry(m, n) ==
    IF contains_key(m.flags, n) THEN Some(m.flags[n])
    ELSE IF contains_key(m.opts, n) THEN Some(m.opts[n])
    ELSE IF contains_key(m.positionals, n) THEN Some(m.positionals[n])
    ELSE None

\* the names whose entry the step from level f to level g has made or changed
changed(f, g) ==
    {n \in DOMAIN g.matches.flags \cup DOMAIN g.matches.opts
             \cup DOMAIN g.matches.positionals :
        entry(f.matches, n) # entry(g.matches, n)}

\* a level with names left in its required set does not return: its end checks
\* are fatal
RequiredLeftIsFatal ==
    \A k \in 1..Len(frames) :
        frames[k].app.required # {} =>
            /\ k = Len(frames)
            /\ phase \in {"parse", "exited"}
            /\ level_ended(k) =>
                  /\ phase = "exited"
                  /\ result = None
                  /\ IF is_some(frames[k].needs_val_of)
                     THEN printed("MissingValue") ELSE printed("MissingRequired")

\* C14 as stated: the required set of a level after a token is a subset of what
\* it was before the token, and a non-empty set at the end of the level is fatal.
C14_RequiredOnlyShrinks ==
    /\ [][consumed' # consumed =>
            frames'[Len(frames)].app.required \subseteq Top(frames).app.required]_vars
    /\ []RequiredLeftIsFatal

\* C14, amended: a token takes out of the required set the names it matches and
\* puts in the dependencies of what it matches that have no recorded match, and
\* nothing else changes the set; a non-empty set at the end of the level is fatal.
C14_RequiredFollowsMatches ==
    /\ [][consumed' # consumed =>
            LET f == Top(frames)
                g == frames'[Len(frames)]
                deps == UNION {A.requires : A \in {B \in declared(f.app) :
                                                     B.name \in changed(f, g)}}
            IN  g.app.required =
                    (f.app.required \ changed(f, g))
                        \cup {n \in deps : ~matched(g.matches, n)}]_vars
    /\ []RequiredLeftIsFatal

\* the flag f, which depends on the option o, was matched: o, which is not
\* marked required, is now in the required set
C14_Witness ==
    /\ phase = "parse"
    /\ Tokens = <<short_tok(<<"f">>)>>
    /\ contains_key(Root.app.opts, "o")
    /\ ~Root.app.opts["o"].required
    /\ "o" \in Root.app.required

----------------------------------------------------------------------------
(* The built-in help and version *)

\* the flags and options the program declared on the registry
user_specs(app) == user_flags(app) \cup values(app.opts)

\* the built-in flags create_help_and_version has put into the registry
builtin_flags(app) == {v \in values(app.flags) : v.name \in BuiltinNames}

\* C15: when a declared flag or option has the long form help or version, or the
\* short form h or v, the built-in of that form is not active at parse time: no
\* built-in flag of the registry has the form, the form does not reach the help
\* or version renderer, and the token --help of a registry that declares the long
\* form help does not print the help.
C15_DeclaredFormSuppressesBuiltin ==
    /\ \A k \in 1..Len(frames) : \A v \in user_specs(frames[k].app) :
         LET app == frames[k].app IN
         /\ v.long = Some(help_str) =>
               /\ ~app.needs_long_help
               /\ \A b \in builtin_flags(app) : b.long # Some(help_str)
         /\ v.long = Some(version_str) =>
               /\ ~app.needs_long_version
               /\ \A b \in builtin_flags(app) : b.long # Some(version_str)
         /\ v.short = Some("h") =>
               /\ ~app.needs_short_help
               /\ \A b \in builtin_flags(app) : b.short # Some("h")
         /\ v.short = Some("v") =>
               /\ ~app.needs_short_version
               /\ \A b \in builtin_flags(app) : b.short # Some("v")
    /\ (consumed # <<>> /\ last_token.class = "long"
          /\ last_token.token = long_tok(help_str)
          /\ \E v \in user_specs(Top(frames).app) : v.long = Some(help_str)) =>
         ~printed("help")

\* C16: at every level of a parse, after the built-in flags were put into the
\* registry, no two flag or option specs of the registry have the same short
\* character or the same long name.
C16_ShortAndLongUnique ==
    \A k \in 1..Len(frames) :
        LET S == values(frames[k].app.flags) \cup values(frames[k].app.opts) IN
        \A v \in S : \A w \in S :
            v.name # w.name => ~same_short(v, w) /\ ~same_long(v, w)

----------------------------------------------------------------------------
(* Subcommands *)

\* entry i of the history is a bare token that names a subcommand the program
\* declared on the registry of its level
declared_subcommand_token(i) ==
    LET e == consumed[i] IN
    /\ e.class = "bare"
    /\ contains_key(frames[e.level].app.subcommands, e.token)
    /\ e.token = help_str => ~frames[e.level].app.needs_subcmd_help

\* C17: a bare token that names a declared subcommand, help included, ends the
\* scan of its level: no later token is taken by that level; unless the end
\* checks of the level are fatal, the parser of that subcommand is started on the
\* rest of the stream, and when the parse returns, the result of the level holds
\* the subcommand's name and result as its nested pair.
C17_SubcommandTokenDispatches ==
    \A i \in 1..Len(consumed) :
        declared_subcommand_token(i) =>
            LET k == consumed[i].level IN
            /\ \A j \in (i + 1)..Len(consumed) : consumed[j].level > k
            /\ IF Len(frames) = k THEN
                   /\ phase = "exited"
                   /\ printed("MissingRequired") \/ printed("MutuallyExclusive")
               ELSE
                   /\ frames[k + 1].app.name = consumed[i].token
                   /\ phase = "done" =>
                        attach(frames, k).subcommand =
                            Some([name |-> consumed[i].token,
                                  matches |-> attach(frames, k + 1)])
                   /\ (phase = "done" /\ k = 1) =>
                        unwrap(result).subcommand =
                            Some([name |-> consumed[i].token,
                                  matches |-> frames[2].matches])

\* entry i of the history is a bare token that names a subcommand of its level,
\* and the parser of that subcommand was started
dispatched(i) ==
    /\ consumed[i].class = "bare"
    /\ contains_key(frames[consumed[i].level].app.subcommands, consumed[i].token)
    /\ Len(frames) > consumed[i].level

\* C18: every token of the stream is taken once, by one level: the levels of the
\* history never go back, a token is taken by the level below exactly when the
\* token before it started that level's parser, no level is entered twice, and
\* each level is the parser of a subcommand of the level above, started once.
C18_EachTokenConsumedByOneLevel ==
    /\ Len(consumed) <= MaxTokens
    /\ \A i \in 1..Len(consumed) :
         /\ consumed[i].level \in 1..Len(frames)
         /\ i = 1 => consumed[i].level = 1
         /\ i > 1 =>
              consumed[i].level =
                  IF dispatched(i - 1) THEN consumed[i - 1].level + 1
                  ELSE consumed[i - 1].level
    /\ \A i \in 1..Len(consumed) :
         (consumed[i].class = "bare"
            /\ contains_key(frames[consumed[i].level].app.subcommands,
                            consumed[i].token)) =>
             \A j \in (i + 1)..Len(consumed) : consumed[j].level > consumed[i].level
    /\ \A k \in 2..Len(frames) :
         /\ Cardinality({i \in 1..Len(consumed) :
                           consumed[i].level = k - 1 /\ dispatched(i)}) = 1
         /\ \E i \in 1..Len(consumed) :
              /\ consumed[i].level = k - 1 /\ dispatched(i)
              /\ frames[k].app.name = consumed[i].token
    /\ phase = "done" =>
         \A k \in 1..Len(frames) :
            is_some(attach(frames, k).subcommand) <=> k < Len(frames)

\* a positional for the parent, the name of the subcommand, a flag of the
\* subcommand: the parent took the first two tokens and the subcommand the third
C18_Witness ==
    /\ phase = "done"
    /\ Tokens = <<<<"a">>, sub_str, short_tok(<<"c">>)>>
    /\ consumed[1].level = 1 /\ consumed[2].level = 1 /\ consumed[3].level = 2
    /\ Len(frames) = 2
    /\ contains_key(frames[1].matches.positionals, "in")
    /\ contains_key(frames[2].matches.flags, "config")
    /\ ~contains_key(frames[1].matches.flags, "config")

----------------------------------------------------------------------------
(* The shape of a registry *)

\* the Args that arg() has accepted on the registry k of the stack
accepted(k) == {logs[k][i] : i \in 1..Len(logs[k])}

\* C19: while a registry is built, after every arg() call that did not fail: an
\* accepted Arg with an index has no short or long form, is not repeatable and
\* takes no value, and is stored as a positional; every option spec and every
\* flag spec has a short or a long form; no flag name is in the required set.
C19_RegistryShape ==
    phase = "build" =>
        \A k \in 1..Len(stack) :
            LET app == stack[k] IN
            /\ \A a \in accepted(k) :
                 is_some(a.index) =>
                    /\ is_none(a.short) /\ is_none(a.long)
                    /\ ~a.multiple /\ ~a.takes_value
                    /\ ~contains_key(app.flags, a.name)
                    /\ ~contains_key(app.opts, a.name)
            /\ \A i \in DOMAIN app.positionals_idx :
                 \E a \in accepted(k) :
                    /\ a.name = app.positionals_idx[i].name
                    /\ a.index = Some(i)
            /\ \A n \in DOMAIN app.opts :
                 /\ is_some(app.opts[n].short) \/ is_some(app.opts[n].long)
                 /\ \E a \in accepted(k) : a.name = n /\ a.takes_value /\ is_none(a.index)
            /\ \A n \in DOMAIN app.flags :
                 /\ is_some(app.flags[n].short) \/ is_some(app.flags[n].long)
                 /\ n \notin app.required
                 /\ \E a \in accepted(k) : a.name = n /\ ~a.takes_value /\ is_none(a.index)
            /\ app.required = {a.name : a \in {b \in accepted(k) : b.required}}

\* a flag, a required option and a positional were accepted
C19_Witness ==
    /\ phase = "build"
    /\ Len(stack) = 1
    /\ DOMAIN stack[1].flags = {"f"}
    /\ DOMAIN stack[1].opts = {"o"}
    /\ DOMAIN stack[1].positionals_idx = {1}
    /\ stack[1].required = {"o"}
    /\ used.args = 3

----------------------------------------------------------------------------
(* Repeats of an argument that does not repeat *)

\* the flag and option specs of the registry that do not repeat
single(app) == {v \in values(app.flags) \cup values(app.opts) : ~v.multiple}

\* the entries of the history in which level k took a long or short token that
\* names the spec n
occurrences_of(k, n) ==
    {i \in 1..Len(consumed) :
        /\ consumed[i].level = k
        /\ consumed[i].class \in {"long", "short"}
        /\ n \in named_by(frames[k], consumed[i])}

----------------------------------------------------------------------------
(* Requests for help and version *)

\* entry i of the history asks for the help or the version: the long form of a
\* built-in that is active, a short token that starts with an active short-cut,
\* or the name of the help subcommand
help_or_version_request(i) ==
    LET e == consumed[i]
        app == frames[e.level].app
    IN  \/ /\ e.class = "long"
           /\ \/ trim_left_matches(e.token, Dash) = help_str /\ app.needs_long_help
              \/ trim_left_matches(e.token, Dash) = version_str /\ app.needs_long_version
        \/ e.class = "short" /\ shortcut(app, chars_of(e.token)[1])
        \/ /\ e.class = "bare" /\ e.token = help_str
           /\ contains_key(app.subcommands, help_str)

\* C21: a request for help or version ends the parse at once with status 0: it is
\* the last token taken, the end checks of the level print nothing, and no result
\* is returned.
C21_HelpAndVersionAreTerminal ==
    \A i \in 1..Len(consumed) :
        help_or_version_request(i) =>
            /\ i = Len(consumed)
            /\ ~exhausted
            /\ phase = "exited"
            /\ printed("help") \/ printed("version")
            /\ ~fatal
            /\ proc.exit_code = Some(0)
            /\ proc.exit_status = 0
            /\ result = None

\* -h after a positional, while the required option o has no match: the help is
\* printed and MissingRequired is not
C21_Witness ==
    /\ phase = "exited"
    /\ Tokens = <<<<"a">>, short_tok(<<"h">>)>>
    /\ "o" \in Root.app.required
    /\ printed("help")
    /\ ~printed("MissingRequired")
    /\ proc.exit_code = Some(0)
    /\ result = None

----------------------------------------------------------------------------
(* Styled text: fmt.rs, in the build with the feature color *)

ANSIString_from(s) == [s |-> s]

\* Display for ANSIString
ANSIString_fmt(a) == a.s

\* Color::paint; the three colour codes are constants of another crate and stand
\* here as one symbol each
paint(color, s) ==
    LET color_code == CASE color = "Green" -> <<"LIME">>
                        [] color = "RedBold" -> <<"RED">>
                        [] color = "Yellow" -> <<"YELLOW">>
    IN  ANSIString_from(color_code \o s)

ColorWhen == {"Auto", "Always", "Never"}

Format(class, e) == [class |-> class, e |-> e]

\* format with the colour of Good for a Warning
format_warning_green(fm) ==
    CASE fm.class = "Error" -> paint("RedBold", fm.e)
      [] fm.class = "Warning" -> paint("Green", fm.e)
      [] fm.class = "Good" -> paint("Green", fm.e)
      [] fm.class = "None" -> ANSIString_from(fm.e)

\* Format::format
format(fm) ==
    CASE fm.class = "Error" -> paint("RedBold", fm.e)
      [] fm.class = "Warning" -> paint("Yellow", fm.e)
      [] fm.class = "Good" -> paint("Green", fm.e)
      [] fm.class = "None" -> ANSIString_from(fm.e)

\* Display for Format
Format_fmt(fm) == ANSIString_fmt(format(fm))

Colorizer_new(option) == [when |-> option.when]

\* the macro color!
color(self, c, m) ==
    CASE self.when = "Auto" -> Format(c, m)
      [] self.when = "Always" -> Format(c, m)
      [] self.when = "Never" -> Format("None", m)

good(self, msg) == color(self, "Good", msg)
warning(self, msg) == color(self, "Warning", msg)
error(self, msg) == color(self, "Error", msg)
none(self, msg) == Format("None", msg)

\* the texts that are styled
Messages == {<<>>, <<"a">>, <<"a", "b">>}

\* nothing is built or parsed; consumed holds the values displayed so far and
\* proc.stdout the text each of them was displayed as
InitFmt ==
    /\ phase = "fmt"
    /\ stack = <<>>
    /\ logs = <<>>
    /\ panic = None
    /\ frames = <<>>
    /\ proc = NewProc
    /\ consumed = <<>>
    /\ exhausted = FALSE
    /\ result = None
    /\ used = [args |-> 0, subs |-> 0]
    /\ pool = "fmt"

\* format!("{}", v) of a value built by its constructor
DisplayFormat ==
    /\ phase = "fmt"
    /\ Len(consumed) < MaxTokens
    /\ \E class \in {"Error", "Warning", "Good", "None"}, e \in Messages :
         LET v == Format(class, e) IN
         /\ consumed' = Append(consumed, v)
         /\ proc' = println(proc, Format_fmt(v))
    /\ UNCHANGED <<phase, stack, logs, panic, frames, exhausted, result, used, pool>>

\* format!("{}", v) of a value built by a Colorizer
DisplayColorized ==
    /\ phase = "fmt"
    /\ Len(consumed) < MaxTokens
    /\ \E when \in ColorWhen, msg \in Messages :
         LET self == Colorizer_new([use_stderr |-> TRUE, when |-> when]) IN
         \E v \in {good(self, msg), warning(self, msg), error(self, msg),
                   none(self, msg)} :
             /\ consumed' = Append(consumed, v)
             /\ proc' = println(proc, Format_fmt(v))
    /\ UNCHANGED <<phase, stack, logs, panic, frames, exhausted, result, used, pool>>

NextFmt ==
    \/ DisplayFormat
    \/ DisplayColorized

SpecFmt == InitFmt /\ [][NextFmt]_vars

\* C22: a styled value is displayed as the painting of its text in the colour of
\* its class, red-bold for Error, yellow for Warning and green for Good, and a
\* value of the class None as its text unchanged.
C22_DisplayFollowsClassAndText ==
    /\ Len(proc.stdout) = Len(consumed)
    /\ \A i \in 1..Len(consumed) :
         LET v == consumed[i] IN
         proc.stdout[i] =
             CASE v.class = "Error" -> ANSIString_fmt(paint("RedBold", v.e))
               [] v.class = "Warning" -> ANSIString_fmt(paint("Yellow", v.e))
               [] v.class = "Good" -> ANSIString_fmt(paint("Green", v.e))
               [] v.class = "None" -> v.e

\* the same text displayed as an Error, as a Warning and as plain text
C22_Witness ==
    /\ consumed = <<Format("Error", <<"a", "b">>), Format("Warning", <<"a", "b">>),
                    Format("None", <<"a", "b">>)>>
    /\ proc.stdout = <<<<"RED", "a", "b">>, <<"YELLOW", "a", "b">>, <<"a", "b">>>>

----------------------------------------------------------------------------
(* The value of an option that is waited for *)

\* C23: while a level waits for the value of an option, the next token it takes
\* is appended to the values of that option and the wait ends, whatever the token
\* looks like; nothing is printed, the level goes on, and nothing else of it
\* changes.
C23_AwaitedValueIsNextToken ==
    [][(/\ phase = "parse"
        /\ consumed' # consumed
        /\ is_some(Top(frames).needs_val_of))
       => LET f == Top(frames)
              e == consumed'[Len(consumed')]
              n == unwrap(f.needs_val_of)
          IN  /\ e.class = "value"
              /\ phase' = "parse"
              /\ proc' = proc
              /\ Len(frames') = Len(frames)
              /\ Pop(frames') = Pop(frames)
              /\ LET g == Top(frames') IN
                 /\ g.needs_val_of = None
                 /\ g.matches.opts[n].name = n
                 /\ g.matches.opts[n].values = Append(f.matches.opts[n].values, e.token)
                 /\ [g EXCEPT !.needs_val_of = f.needs_val_of,
                              !.matches.opts[n] = f.matches.opts[n]] = f]_vars

\* -o -- a: the separator is the value of o, and a fills the positional
C23_Witness ==
    /\ phase = "done"
    /\ Tokens = <<short_tok(<<"o">>), separator, <<"a">>>>
    /\ consumed[2].class = "value"
    /\ unwrap(result).opts["o"].values = <<separator>>
    /\ ~Root.pos_only
    /\ unwrap(result).positionals["in"].value = <<"a">>

\* --o sub -f: the name of a subcommand is the value of o, and no level is entered
C23_WitnessSubcommand ==
    /\ phase = "done"
    /\ Tokens = <<long_tok(<<"o">>), sub_str, short_tok(<<"f">>)>>
    /\ unwrap(result).opts["o"].values = <<sub_str>>
    /\ contains_key(Root.app.subcommands, sub_str)
    /\ Len(frames) = 1
    /\ is_none(unwrap(result).subcommand)

\* -o --help: the request for help is the value of o
C23_WitnessHelp ==
    /\ phase = "done"
    /\ Tokens = <<short_tok(<<"o">>), long_tok(help_str)>>
    /\ unwrap(result).opts["o"].values = <<long_tok(help_str)>>
    /\ ~printed("help")

----------------------------------------------------------------------------
(* Inline values *)

\* the level takes a long token with an inline part in this step
inline_step ==
    /\ phase = "parse"
    /\ consumed' # consumed
    /\ consumed'[Len(consumed')].class = "long"
    /\ contains(consumed'[Len(consumed')].token, Eq)

\* the values of option n in the innermost level after the step
values_after(n) == recorded(Top(frames').matches, n)

\* C24: a long token is split at its first "=" only: when the level goes on after
\* --name=v, the value recorded last for the option name is all of v, further "="
\* included, and an empty v ends the parse with MissingValue.
C24_InlineSplitsAtFirstEq ==
    [][inline_step =>
         LET tok == consumed'[Len(consumed')].token
             v == after_first_eq(tok)
         IN  IF v = <<>> THEN
                 /\ phase' = "exited"
                 /\ \E i \in 1..Len(proc'.stdout) : proc'.stdout[i] = "MissingValue"
             ELSE
                 \A o \in values(Top(frames).app.opts) :
                     (phase' = "parse" /\ o.long = Some(long_name_of(tok))) =>
                         /\ values_after(o.name) # <<>>
                         /\ values_after(o.name)[Len(values_after(o.name))] = v]_vars

\* what the code does: the value is the piece between the first and the second
\* "=", and the token is fatal when that piece is empty
C24_InlineIsSecondPiece ==
    [][inline_step =>
         LET tok == consumed'[Len(consumed')].token
             v == split(trim_left_matches(tok, Dash), Eq)[2]
         IN  IF v = <<>> THEN
                 /\ phase' = "exited"
                 /\ \E i \in 1..Len(proc'.stdout) : proc'.stdout[i] = "MissingValue"
             ELSE
                 \A o \in values(Top(frames).app.opts) :
                     (phase' = "parse" /\ o.long = Some(long_name_of(tok))) =>
                         /\ values_after(o.name) # <<>>
                         /\ values_after(o.name)[Len(values_after(o.name))] = v]_vars

----------------------------------------------------------------------------
(* The end checks of a level that found a subcommand *)

\* entry i is the token of a subcommand: its level has run its end checks before
\* anything of the subcommand; names left in the required set are fatal with
\* MissingRequired, and otherwise two matched arguments that exclude each other
\* are fatal with MutuallyExclusive; in both cases no level is entered and no
\* further token is taken
checks_precede_subcommand(i) ==
    LET k == consumed[i].level
        f == frames[k]
        fatal_here(msg) == /\ phase = "exited"
                           /\ printed(msg)
                           /\ proc.exit_status = 1
                           /\ Len(frames) = k
                           /\ i = Len(consumed)
                           /\ result = None
    IN  /\ is_none(f.needs_val_of)
        /\ f.app.required # {} =>
              fatal_here("MissingRequired") /\ ~printed("MutuallyExclusive")
        /\ (f.app.required = {} /\ excluding_pair(f)) => fatal_here("MutuallyExclusive")
        /\ (f.app.required = {} /\ ~excluding_pair(f)) =>
              /\ Len(frames) > k
              /\ frames[k + 1].app.name = consumed[i].token

\* no step changes a level above the innermost one
outer_levels_fixed ==
    [][\A k \in 1..Len(frames) :
          (k < Len(frames) /\ Len(frames') >= Len(frames)) => frames'[k] = frames[k]]_vars

\* C25: when a level takes the token of a subcommand the program declared, its
\* end checks run before the subcommand's parser takes any token: names left in
\* the required set are fatal with MissingRequired and the subcommand is not
\* parsed, and no later token changes the required set of the parent.
C25_EndChecksPrecedeSubcommand ==
    /\ [](\A i \in 1..Len(consumed) :
            declared_subcommand_token(i) => checks_precede_subcommand(i))
    /\ outer_levels_fixed

\* the same for every subcommand token but help
C25_EndChecksPrecedeSubcommandButHelp ==
    /\ [](\A i \in 1..Len(consumed) :
            (declared_subcommand_token(i) /\ consumed[i].token # help_str) =>
                checks_precede_subcommand(i))
    /\ outer_levels_fixed

\* -g sub, with o required and unmatched: MissingRequired, and sub is not entered
C25_Observed ==
    /\ phase = "exited"
    /\ Tokens = <<short_tok(<<"g">>), sub_str>>
    /\ Root.app.required = {"o"}
    /\ printed("MissingRequired")
    /\ Len(frames) = 1

----------------------------------------------------------------------------
(* Positional-only mode and the wait for a value *)

\* C26: no level is at once positional-only and waiting for a value: a token
\* starts a wait only in a level that is neither positional-only nor waiting, and
\* a token makes a level positional-only only when the level is not waiting.
C26_NeverPositionalOnlyAndAwaiting ==
    /\ [](\A k \in 1..Len(frames) :
            ~(frames[k].pos_only /\ is_some(frames[k].needs_val_of)))
    /\ [][(consumed' # consumed /\ phase' = "parse" /\ Len(frames') = Len(frames)) =>
            LET f == Top(frames)
                g == Top(frames')
            IN  /\ is_some(g.needs_val_of) =>
                     ~f.pos_only /\ ~g.pos_only /\ is_none(f.needs_val_of)
                /\ is_some(f.needs_val_of) =>
                     is_none(g.needs_val_of) /\ g.pos_only = f.pos_only
                /\ f.pos_only => g.pos_only]_vars

\* -o -- --: the first separator is the value o waited for, the second makes the
\* level positional-only
C26_Witness ==
    /\ phase = "parse"
    /\ Tokens = <<short_tok(<<"o">>), separator, separator>>
    /\ Root.pos_only
    /\ is_none(Root.needs_val_of)
    /\ Root.matches.opts["o"].values = <<separator>>

----------------------------------------------------------------------------
(* Occurrence counts and values of options *)

\* the options recorded by level k of a parse that returned
recorded_opts(k) == values(frames[k].matches.opts)

\* C27: in a result, the occurrence count of every option is the length of its
\* values, and both are the number of tokens of its level that named it.
C27_OccurrencesEqualValues ==
    phase = "done" =>
        \A k \in 1..Len(frames) : \A o \in recorded_opts(k) :
            /\ o.occurrences = Len(o.values)
            /\ Len(o.values) = Cardinality(occurrences_of(k, o.name))

\* what the code does: the values are as many as the tokens that named the
\* option; the count is 1 for an option that does not repeat, and for one that
\* repeats it is one more than the values when the value of the first naming
\* token was a token of its own
C27_OccurrencesCountFirstValueTwice ==
    phase = "done" =>
        \A k \in 1..Len(frames) : \A o \in recorded_opts(k) :
            LET occ == occurrences_of(k, o.name)
                first == CHOOSE i \in occ : \A j \in occ : i <= j
            IN  /\ Len(o.values) = Cardinality(occ)
                /\ occ # {}
                /\ o.occurrences =
                     IF ~frames[k].app.opts[o.name].multiple THEN 1
                     ELSE IF contains(consumed[first].token, Eq) THEN Len(o.values)
                     ELSE Len(o.values) + 1


\* C28: in a result, every option that is present has at least one value, and
\* exactly one when it does not repeat, at every level of the tree.
C28_OptionsHaveValues ==
    phase = "done" =>
        /\ unwrap(result) = attach(frames, 1)
        /\ \A k \in 1..Len(frames) : \A o \in recorded_opts(k) :
             /\ Len(o.values) >= 1
             /\ ~frames[k].app.opts[o.name].multiple => Len(o.values) = 1

\* --tag b --name=a: tag, given by a token and the token after it, and name,
\* which does not repeat and is given inline, have one value each
C28_Witness ==
    /\ phase = "done"
    /\ Tokens = <<long_tok(tag_str), <<"b">>, inline_tok(name_str, <<"a">>)>>
    /\ unwrap(result).opts["tag"].values = <<<<"b">>>>
    /\ unwrap(result).opts["name"].values = <<<<"a">>>>

----------------------------------------------------------------------------
(* The names in a result *)

\* the names ArgMatches m holds
names_in(m) == DOMAIN m.flags \cup DOMAIN m.opts \cup DOMAIN m.positionals

\* C29: in a result, every name of a flag, option or positional is one the
\* program declared with arg(), at every level of the tree; the names of the
\* built-in flags are never among them.
C29_OnlyDeclaredNamesRecorded ==
    phase = "done" =>
        \A k \in 1..Len(frames) :
            /\ names_in(frames[k].matches) \subseteq frames[k].app.arg_list
            /\ names_in(frames[k].matches) \cap BuiltinNames = {}

\* what the code does: a built-in flag is recorded by the long token of its form
\* with an inline part, and clap_version also by the short character v when the
\* program declared that short form but not the short form h
C29_BuiltinsRecordedByInlineOrDeclaredShort ==
    phase = "done" =>
        \A k \in 1..Len(frames) :
            LET app == frames[k].app
                names == names_in(frames[k].matches)
                inline(l) == \E i \in 1..Len(consumed) :
                                /\ consumed[i].level = k
                                /\ consumed[i].class = "long"
                                /\ contains(consumed[i].token, Eq)
                                /\ long_name_of(consumed[i].token) = l
            IN  /\ names \subseteq app.arg_list \cup BuiltinNames
                /\ "clap_help" \in names => app.needs_long_help /\ inline(help_str)
                /\ "clap_version" \in names =>
                     /\ app.needs_long_version
                     /\ \/ inline(version_str)
                        \/ /\ ~app.needs_short_version /\ app.needs_short_help
                           /\ \E i \in 1..Len(consumed) :
                                /\ consumed[i].level = k
                                /\ consumed[i].class = "short"
                                /\ contains(Tail(consumed[i].token), "v")

----------------------------------------------------------------------------
(* The registry and the names in use *)

\* in how many of the three maps of app a spec named n is found
maps_holding(app, n) ==
    (IF contains_key(app.flags, n) THEN 1 ELSE 0)
    + (IF contains_key(app.opts, n) THEN 1 ELSE 0)
    + (IF \E i \in DOMAIN app.positionals_idx : app.positionals_idx[i].name = n
       THEN 1 ELSE 0)

\* C30: while an App is built, every name accepted by arg(), and so every name of
\* the required set, names a spec held by exactly one of the maps of flags,
\* options and positionals.
C30_UsedNamesAreRegistered ==
    phase = "build" =>
        \A k \in 1..Len(stack) :
            /\ stack[k].required \subseteq stack[k].arg_list
            /\ \A n \in stack[k].arg_list : maps_holding(stack[k], n) = 1

\* what the code does: a name accepted by arg() is held by one map, or by none
\* when it is the name of a positional and a later positional took its index
C30_NameLostOnlyToLaterIndex ==
    phase = "build" =>
        \A k \in 1..Len(stack) :
            /\ stack[k].required \subseteq stack[k].arg_list
            /\ \A n \in stack[k].arg_list :
                 \/ maps_holding(stack[k], n) = 1
                 \/ /\ maps_holding(stack[k], n) = 0
                    /\ \E i \in 1..Len(logs[k]) : \E j \in (i + 1)..Len(logs[k]) :
                         /\ logs[k][i].name = n
                         /\ is_some(logs[k][i].index)
                         /\ logs[k][j].index = logs[k][i].index

\* in, required, lost its index to out2: no token can match it, and a parse that
\* fills the index fails with MissingRequired
C30_Observed ==
    /\ phase = "exited"
    /\ exhausted
    /\ Tokens = <<<<"a">>>>
    /\ Root.app.arg_list = {"in", "out2"}
    /\ Root.app.required = {"in"}
    /\ DOMAIN Root.matches.positionals = {"out2"}
    /\ printed("MissingRequired")

----------------------------------------------------------------------------
(* The outcome of a level and the iteration order of its maps *)

\* what a process that has ended printed: the help, the version, or the kind of
\* its diagnostic
exit_kind(p) ==
    IF \E i \in 1..Len(p.stdout) : p.stdout[i] = "help" THEN "help"
    ELSE p.stdout[Len(NewProc.stdout) + 1]

\* the outcomes of one level on the tokens toks, one for each order in which
\* validate_blacklist can walk the exclusion set: the kind of the exit, or the
\* matches of the level and the subcommand it hands the rest of the tokens to
RECURSIVE level_outcome(_, _, _)
level_outcome(f, p, toks) ==
    LET at_end(g) ==
            {IF terminated(p2)
             THEN [kind |-> exit_kind(p2), matches |-> NewMatches, subcmd |-> None]
             ELSE [kind |-> "returns", matches |-> g.matches, subcmd |-> g.subcmd_name] :
                p2 \in end_of_level(g, p)}
    IN  IF toks = <<>> THEN at_end(f)
        ELSE LET r == loop_body(f, p, Head(toks)) IN
             IF terminated(r.proc)
             THEN {[kind |-> exit_kind(r.proc), matches |-> NewMatches, subcmd |-> None]}
             ELSE IF r.brk THEN at_end(r.f)
             ELSE level_outcome(r.f, r.proc, Tail(toks))

\* the token sequences a level is run on
TokenSeqs == UNION {[1..m -> PoolOf(pool).toks] : m \in 0..MaxTokens}

\* the innermost level has taken no token yet
fresh_level ==
    /\ phase = "parse"
    /\ \A i \in 1..Len(consumed) : consumed[i].level < Len(frames)

\* the outcomes of the innermost level on toks when its flags map yields the
\* built-in flags first, or last
outcomes_in_order(builtin_first, toks) ==
    level_outcome([Top(frames) EXCEPT !.builtin_first = builtin_first], NewProc, toks)

\* C31: the outcome of a level, the result or the kind of the exit, is a function
\* of its registry and its tokens: it is the same for every iteration order of
\* the flags map and of the exclusion set.
C31_OutcomeIndependentOfOrder ==
    fresh_level =>
        \A toks \in TokenSeqs :
            /\ outcomes_in_order(TRUE, toks) = outcomes_in_order(FALSE, toks)
            /\ Cardinality(outcomes_in_order(TRUE, toks)) = 1

\* what the code does: the order of the exclusion set never changes the outcome,
\* and the order of the flags map changes it only in a registry where a built-in
\* flag has the short character of a declared flag
C31_OrderMattersOnlyWithSharedShort ==
    fresh_level =>
        \A toks \in TokenSeqs :
            /\ Cardinality(outcomes_in_order(TRUE, toks)) = 1
            /\ Cardinality(outcomes_in_order(FALSE, toks)) = 1
            /\ outcomes_in_order(TRUE, toks) # outcomes_in_order(FALSE, toks) =>
                 \E b \in builtin_flags(Top(frames).app) :
                     \E v \in user_flags(Top(frames).app) :
                         is_some(b.short) /\ b.short = v.short

====
